---- MODULE Spec2Model ----
(***************************************************************************)
(* Exchange-tree backend of chat-tree (backend/models.py, storage.py,      *)
(* main.py): the ExchangeTree operations, the in-memory ExchangeStorage    *)
(* and the HTTP handlers that drive them, as a state machine.              *)
(*                                                                         *)
(* Every handler is one action up to its first await: the handlers run on  *)
(* one asyncio event loop, so only the generation call (single-shot) and   *)
(* the fragment iteration (streaming) let other requests interleave.       *)
(***************************************************************************)
EXTENDS Integers, Sequences, FiniteSets, TLC

(* ------------------------------ bounds --------------------------------- *)
\* exchange ids uuid4 hands out over a run of Spec (ids are 1, 2, ... in the
\* order they are handed out)
MaxIds == 2
\* exchange ids uuid4 hands out over a run of SpecSeq
SeqIds == 3
\* fragments one streaming generation yields at most
MaxChunks == 1
\* exchange ids uuid4 hands out over a run of SpecStream
StreamIds == 1
\* fragments one streaming generation yields at most in SpecStream
StreamChunks == 2
\* exchange ids uuid4 hands out over a run of SpecIso
IsoIds == 1
\* exchange ids uuid4 hands out over a run of SpecGen
GenIds == 2
\* exchange ids uuid4 hands out over a run of SpecTree
TreeIds == 4
\* exchange ids uuid4 hands out over a run of SpecRetry
RetryIds == 2
\* SpecSummary: exchanges created, and the longest user message
SumIds == 1
MaxLen == 51

(* ------------------------------ values --------------------------------- *)
\* Python None where an id is expected
None == -1
\* an id string that uuid4 never returns
UnknownId == 0

\* the conversation ids uuid4 hands out over a run, each at most once
ConvIds == {"c1"}
\* the conversation ids of SpecIso: two, so that one tree can be looked at
\* while the other is worked on
IsoConvs == {"c1", "c2"}

\* Optional[str]: <<>> is None, <<t>> is the string t (a sequence of characters)
NoText == <<>>
Some(t) == <<t>>
\* truthiness of an Optional[str]: None and "" are falsy
TruthyText(o) == o # NoText /\ o[1] # <<>>
\* truthiness of an Optional[str] id (no stored id is the empty string)
TruthyId(i) == i # None

\* user messages and generated texts of the main specification
Messages == { <<"h">> }
Replies == { <<"r">> }
Chunks == { <<"r">> }
\* the fragments of SpecStream: two, so that their order shows
Fragments == { <<"a">>, <<"b">> }
\* the message contents of SpecGen: empty, whitespace only, text in whitespace
Completions == { <<>>, <<" ">>, <<" ", "r", " ">> }

\* user messages around the length at which a summary is cut: the string of
\* n characters "abab..."
Text(n) == [i \in 1..n |-> IF i % 2 = 1 THEN "a" ELSE "b"]
Texts == { Text(n) : n \in {0, 1} \cup (MaxLen - 2)..MaxLen }
\* user_summary of a request: missing, empty, given
Summaries == { NoText, Some(<<>>), Some(<<"s">>) }

VARIABLES
    store,      \* ExchangeStorage._conversations: conversation id -> tree
    nextId,     \* next exchange id uuid4 will return
    convs,      \* the ids handed out as conversation ids so far
    reqs,       \* chat requests suspended in generation, by their exchange's id
    last        \* the handler that ran last: its name, arguments and outcome

vars == <<store, nextId, convs, reqs, last>>

(* ------------------------------ helpers -------------------------------- *)
InSeq(x, s) == \E i \in 1..Len(s) : s[i] = x

Put(f, k, v) == [x \in DOMAIN f \cup {k} |-> IF x = k THEN v ELSE f[x]]

Drop(f, k) == [x \in DOMAIN f \ {k} |-> f[x]]

\* list.remove(x): drops the first occurrence
RECURSIVE RemoveFirst(_, _)
RemoveFirst(s, x) ==
    IF s = <<>> THEN <<>>
    ELSE IF Head(s) = x THEN Tail(s)
    ELSE <<Head(s)>> \o RemoveFirst(Tail(s), x)

(* ------------------------------ ExchangeNode --------------------------- *)
SummaryLen == 50
Ellipsis == <<".", ".", ".">>

\* faulty variant: a text of exactly 50 characters is cut as well (C27)
Summarize_from_50(content) ==
    IF Len(content) >= SummaryLen
    THEN SubSeq(content, 1, SummaryLen) \o Ellipsis
    ELSE content

\* content[:50] + "..." if len(content) > 50 else content
Summarize(content) ==
    IF Len(content) > SummaryLen
    THEN SubSeq(content, 1, SummaryLen) \o Ellipsis
    ELSE content

\* ExchangeNode(...) followed by model_post_init
ExchangeNode(id, user_content, user_summary, assistant_loading) ==
    [ id                |-> id,
      user_content      |-> user_content,
      user_summary      |-> IF user_summary = <<>> THEN Summarize(user_content)
                            ELSE user_summary,
      assistant_content |-> NoText,
      assistant_summary |-> NoText,
      assistant_loading |-> assistant_loading,
      is_complete       |-> FALSE,
      parent_id         |-> None,
      children_ids      |-> <<>> ]

(* ------------------------------ ExchangeTree --------------------------- *)
\* ExchangeTree(): no exchanges, no root, empty current path
NewTree ==
    [ exchanges    |-> <<>>,
      root_id      |-> None,
      current_path |-> <<>> ]

Has(t, id) == id \in DOMAIN t.exchanges

(* Faulty variants of add_exchange, each one slip away from the code; the    *)
(* theorems named beside them must fail when add_exchange behaves like them. *)

\* forgets to append the new id to the parent's children_ids (C1)
add_exchange_unlinked(t, exchange, parent_id) ==
    LET ex == IF parent_id # None
              THEN [exchange EXCEPT !.parent_id = parent_id]
              ELSE exchange
        first_root == parent_id = None /\ t.root_id = None
    IN  [ exchanges    |-> Put(t.exchanges, exchange.id, ex),
          root_id      |-> IF first_root THEN exchange.id ELSE t.root_id,
          current_path |-> IF first_root THEN <<exchange.id>> ELSE t.current_path ]

\* drops the root_id is None test: every null-parent add becomes the root (C7)
add_exchange_last_root(t, exchange, parent_id) ==
    LET ex == IF parent_id # None
              THEN [exchange EXCEPT !.parent_id = parent_id]
              ELSE exchange
        linked == IF parent_id # None /\ Has(t, parent_id)
                  THEN [t.exchanges EXCEPT
                          ![parent_id].children_ids = Append(@, exchange.id)]
                  ELSE t.exchanges
    IN  [ exchanges    |-> Put(linked, exchange.id, ex),
          root_id      |-> IF parent_id = None THEN exchange.id ELSE t.root_id,
          current_path |-> IF parent_id = None THEN <<exchange.id>> ELSE t.current_path ]

\* assigns the first root but leaves current_path alone (C9)
add_exchange_keeps_path(t, exchange, parent_id) ==
    LET ex == IF parent_id # None
              THEN [exchange EXCEPT !.parent_id = parent_id]
              ELSE exchange
        linked == IF parent_id # None /\ Has(t, parent_id)
                  THEN [t.exchanges EXCEPT
                          ![parent_id].children_ids = Append(@, exchange.id)]
                  ELSE t.exchanges
        first_root == parent_id = None /\ t.root_id = None
    IN  [ exchanges    |-> Put(linked, exchange.id, ex),
          root_id      |-> IF first_root THEN exchange.id ELSE t.root_id,
          current_path |-> t.current_path ]

\* inserts the new id at the front of the parent's children_ids (C10)
add_exchange_prepend(t, exchange, parent_id) ==
    LET ex == IF parent_id # None
              THEN [exchange EXCEPT !.parent_id = parent_id]
              ELSE exchange
        linked == IF parent_id # None /\ Has(t, parent_id)
                  THEN [t.exchanges EXCEPT
                          ![parent_id].children_ids = <<exchange.id>> \o @]
                  ELSE t.exchanges
        first_root == parent_id = None /\ t.root_id = None
    IN  [ exchanges    |-> Put(linked, exchange.id, ex),
          root_id      |-> IF first_root THEN exchange.id ELSE t.root_id,
          current_path |-> IF first_root THEN <<exchange.id>> ELSE t.current_path ]

\* ExchangeTree.add_exchange
add_exchange(t, exchange, parent_id) ==
    LET ex == IF parent_id # None
              THEN [exchange EXCEPT !.parent_id = parent_id]
              ELSE exchange
        linked == IF parent_id # None /\ Has(t, parent_id)
                  THEN [t.exchanges EXCEPT
                          ![parent_id].children_ids = Append(@, exchange.id)]
                  ELSE t.exchanges
        first_root == parent_id = None /\ t.root_id = None
    IN  [ exchanges    |-> Put(linked, exchange.id, ex),
          root_id      |-> IF first_root THEN exchange.id ELSE t.root_id,
          current_path |-> IF first_root THEN <<exchange.id>> ELSE t.current_path ]

\* the while loop of get_path_to_exchange: prepend, then step to the parent
RECURSIVE WalkUp(_, _, _)
WalkUp(t, current_id, path) ==
    IF current_id = None THEN path
    ELSE WalkUp(t,
                IF Has(t, current_id) THEN t.exchanges[current_id].parent_id ELSE None,
                <<current_id>> \o path)

\* faulty variant: path.append instead of path.insert(0, ...), so the path
\* comes out leaf first (C8)
RECURSIVE WalkUpAppending(_, _, _)
WalkUpAppending(t, current_id, path) ==
    IF current_id = None THEN path
    ELSE WalkUpAppending(t,
                IF Has(t, current_id) THEN t.exchanges[current_id].parent_id ELSE None,
                Append(path, current_id))

get_path_leaf_first(t, exchange_id) ==
    IF ~Has(t, exchange_id) THEN <<>> ELSE WalkUpAppending(t, exchange_id, <<>>)

\* faulty variant: the walk starts without the test that the id is present,
\* so an absent id comes back as a one-element path (C11)
get_path_unguarded(t, exchange_id) == WalkUp(t, exchange_id, <<>>)

\* ExchangeTree.get_path_to_exchange
get_path_to_exchange(t, exchange_id) ==
    IF ~Has(t, exchange_id) THEN <<>> ELSE WalkUp(t, exchange_id, <<>>)

\* faulty variant: continue instead of break, so missing ids are skipped and
\* the ids after them kept (C5)
RECURSIVE ValidPrefix_skipping(_, _)
ValidPrefix_skipping(t, path) ==
    IF path = <<>> THEN <<>>
    ELSE IF Has(t, Head(path))
         THEN <<Head(path)>> \o ValidPrefix_skipping(t, Tail(path))
         ELSE ValidPrefix_skipping(t, Tail(path))

\* the loop that rebuilds current_path: keep ids up to the first missing one
RECURSIVE ValidPrefix(_, _)
ValidPrefix(t, path) ==
    IF path = <<>> THEN <<>>
    ELSE IF Has(t, Head(path)) THEN <<Head(path)>> \o ValidPrefix(t, Tail(path))
    ELSE <<>>

RECURSIVE delete_exchange(_, _)
RECURSIVE DeleteChildren(_, _)

\* faulty variant: the children are not deleted with their parent (C2)
DeleteChildren_none(t, children_to_delete) == t

\* for child_id in children_to_delete: self.delete_exchange(child_id)
DeleteChildren(t, children_to_delete) ==
    IF children_to_delete = <<>> THEN t
    ELSE DeleteChildren(delete_exchange(t, Head(children_to_delete)).tree,
                        Tail(children_to_delete))

\* faulty variant: deleting the root clears root_id (C36)
delete_exchange_unrooting(t, exchange_id) ==
    IF ~Has(t, exchange_id) THEN [tree |-> t, ret |-> FALSE]
    ELSE
      LET exchange == t.exchanges[exchange_id]
          p == exchange.parent_id
          detached ==
              IF TruthyId(p) /\ Has(t, p) /\ InSeq(exchange_id, t.exchanges[p].children_ids)
              THEN [t EXCEPT !.exchanges[p].children_ids = RemoveFirst(@, exchange_id)]
              ELSE t
          pruned == DeleteChildren(detached, detached.exchanges[exchange_id].children_ids)
          removed == [pruned EXCEPT !.exchanges = Drop(@, exchange_id),
                                    !.root_id = IF @ = exchange_id THEN None ELSE @]
          repaired ==
              IF InSeq(exchange_id, removed.current_path)
              THEN [removed EXCEPT !.current_path = ValidPrefix(removed, @)]
              ELSE removed
      IN  [tree |-> repaired, ret |-> TRUE]

\* faulty variant: the exchange is not removed from its parent's children_ids
\* (C35)
delete_exchange_listed(t, exchange_id) ==
    IF ~Has(t, exchange_id) THEN [tree |-> t, ret |-> FALSE]
    ELSE
      LET pruned == DeleteChildren(t, t.exchanges[exchange_id].children_ids)
          removed == [pruned EXCEPT !.exchanges = Drop(@, exchange_id)]
          repaired ==
              IF InSeq(exchange_id, removed.current_path)
              THEN [removed EXCEPT !.current_path = ValidPrefix(removed, @)]
              ELSE removed
      IN  [tree |-> repaired, ret |-> TRUE]

\* returns the tree afterwards and the boolean result
delete_exchange(t, exchange_id) ==
    IF ~Has(t, exchange_id) THEN [tree |-> t, ret |-> FALSE]
    ELSE
      LET exchange == t.exchanges[exchange_id]
          p == exchange.parent_id
          detached ==
              IF TruthyId(p) /\ Has(t, p) /\ InSeq(exchange_id, t.exchanges[p].children_ids)
              THEN [t EXCEPT !.exchanges[p].children_ids = RemoveFirst(@, exchange_id)]
              ELSE t
          pruned == DeleteChildren(detached, detached.exchanges[exchange_id].children_ids)
          removed == [pruned EXCEPT !.exchanges = Drop(@, exchange_id)]
          repaired ==
              IF InSeq(exchange_id, removed.current_path)
              THEN [removed EXCEPT !.current_path = ValidPrefix(removed, @)]
              ELSE removed
      IN  [tree |-> repaired, ret |-> TRUE]

(* ------------------------------ ExchangeStorage ------------------------ *)
\* ExchangeStorage.create_conversation: self._conversations[id] = conversation
create_conversation(st, id, conversation) == Put(st, id, conversation)

\* ExchangeStorage.get_conversation: the tree as <<tree>>, or <<>> for None
get_conversation(st, id) == IF id \in DOMAIN st THEN <<st[id]>> ELSE <<>>

\* faulty variant: update stores the tree whether or not its id is present (C22)
update_conversation_upsert(st, id, conversation) ==
    [store |-> Put(st, id, conversation), raised |-> FALSE]

\* ExchangeStorage.update_conversation: replaces the tree of a present id,
\* raises ValueError for any other
update_conversation(st, id, conversation) ==
    IF id \in DOMAIN st
    THEN [store |-> Put(st, id, conversation), raised |-> FALSE]
    ELSE [store |-> st, raised |-> TRUE]

\* faulty variant: delete reports success whether or not the id was present (C23)
delete_conversation_always(st, id) ==
    [store |-> Drop(st, id), ret |-> TRUE]

\* ExchangeStorage.delete_conversation
\* faulty variant: deleting one conversation empties the whole store (C25)
delete_conversation_clearing(st, id) ==
    IF id \in DOMAIN st
    THEN [store |-> <<>>, ret |-> TRUE]
    ELSE [store |-> st, ret |-> FALSE]

delete_conversation(st, id) ==
    IF id \in DOMAIN st
    THEN [store |-> Drop(st, id), ret |-> TRUE]
    ELSE [store |-> st, ret |-> FALSE]

\* storage.get_conversation(id) finds a tree
Stored(cid) == get_conversation(store, cid) # <<>>

\* ExchangeStorage.update_exchange: None unless the tree and the exchange exist;
\* the exchange passed in is the object the tree already holds, so assigning it
\* changes nothing
update_exchange_found(cid, exchange_id) ==
    Stored(cid) /\ Has(store[cid], exchange_id)

(* ------------------------------ inputs --------------------------------- *)
\* conversation ids a client can name: those handed out so far, stored or not
\* (a client holding the id of a conversation that is gone is the case the chat
\* handlers recover from)
KnownConvs == convs

\* exchange ids a client can name: any id handed out so far (live, deleted or
\* of another conversation), or a string that is no id
KnownIds == 1..(nextId - 1) \cup {UnknownId}

ParentArgs == KnownIds \cup {None}

NoPre == <<>>

Ran(op, cid, id, parent, ret, pre) ==
    [op |-> op, cid |-> cid, id |-> id, parent |-> parent, ret |-> ret, pre |-> pre]

(* ------------------------------ state machine -------------------------- *)
Init ==
    /\ store = <<>>
    /\ nextId = 1
    /\ convs = {}
    /\ reqs = <<>>
    /\ last = Ran("init", None, None, None, "ok", NoPre)

\* POST /api/conversations; cid is the id uuid4 gives the new tree
CreateConversation(cid, initial_message) ==
    /\ cid \notin convs
    /\ LET conversation ==
               IF TruthyText(initial_message)
               THEN add_exchange(NewTree,
                                 ExchangeNode(nextId, initial_message[1], <<>>, FALSE),
                                 None)
               ELSE NewTree
       IN  /\ store' = create_conversation(store, cid, conversation)
           /\ last' = Ran("create_conversation", cid,
                          IF TruthyText(initial_message) THEN nextId ELSE None,
                          None, "ok", NoPre)
    /\ convs' = convs \cup {cid}
    /\ nextId' = IF TruthyText(initial_message) THEN nextId + 1 ELSE nextId
    /\ UNCHANGED reqs

\* DELETE /api/conversations/{conversation_id}
DeleteConversation(cid) ==
    /\ LET success == delete_conversation(store, cid)
       IN  /\ store' = success.store
           /\ last' = Ran("delete_conversation", IF success.ret THEN cid ELSE None,
                          None, None,
                          IF success.ret THEN "ok" ELSE "not_found", NoPre)
    /\ UNCHANGED <<nextId, convs, reqs>>

\* faulty variant: a request for a tree that is not stored creates the tree,
\* as the chat handlers do (C26)
CreateExchange_recovering(cid, user_content, user_summary, parent_id) ==
    /\ LET new_exchange ==
               ExchangeNode(nextId, user_content,
                            IF TruthyText(user_summary) THEN user_summary[1] ELSE <<>>,
                            FALSE)
       IN  /\ store' = Put(store, cid,
                           add_exchange(IF Stored(cid) THEN store[cid] ELSE NewTree,
                                        new_exchange, parent_id))
           /\ last' = Ran("create_exchange", cid, nextId, parent_id, "ok", NoPre)
    /\ nextId' = nextId + 1
    /\ UNCHANGED <<convs, reqs>>

\* faulty variant: an exchange created without a parent is given its own id
\* as parent (C31)
CreateExchange_own_parent(cid, user_content, user_summary, parent_id) ==
    /\ LET new_exchange ==
               ExchangeNode(nextId, user_content,
                            IF TruthyText(user_summary) THEN user_summary[1] ELSE <<>>,
                            FALSE)
       IN  IF Stored(cid)
           THEN /\ store' = [store EXCEPT ![cid] =
                                add_exchange(@, new_exchange,
                                             IF parent_id = None THEN nextId
                                             ELSE parent_id)]
                /\ last' = Ran("create_exchange", cid, nextId, parent_id, "ok", NoPre)
           ELSE /\ store' = store
                /\ last' = Ran("create_exchange", None, None, None, "not_found", NoPre)
    /\ nextId' = IF Stored(cid) THEN nextId + 1 ELSE nextId
    /\ UNCHANGED <<convs, reqs>>

\* POST /api/exchanges
CreateExchange(cid, user_content, user_summary, parent_id) ==
    /\ LET new_exchange ==
               ExchangeNode(nextId, user_content,
                            IF TruthyText(user_summary) THEN user_summary[1] ELSE <<>>,
                            FALSE)
       IN  IF Stored(cid)
           THEN /\ store' = [store EXCEPT ![cid] = add_exchange(@, new_exchange, parent_id)]
                /\ last' = Ran("create_exchange", cid, nextId, parent_id, "ok", NoPre)
           ELSE /\ store' = store
                /\ last' = Ran("create_exchange", None, None, None, "not_found", NoPre)
    \* the id minted for an exchange that is then dropped is never seen again
    /\ nextId' = IF Stored(cid) THEN nextId + 1 ELSE nextId
    /\ UNCHANGED <<convs, reqs>>

\* DELETE /api/exchanges/{exchange_id}
DeleteExchange(cid, exchange_id) ==
    /\ IF Stored(cid)
       THEN LET r == delete_exchange(store[cid], exchange_id)
            IN  /\ store' = [store EXCEPT ![cid] = r.tree]
                /\ last' = IF r.ret
                           THEN Ran("delete_exchange", cid, exchange_id, None, "ok",
                                    <<store[cid]>>)
                           ELSE Ran("delete_exchange", None, None, None, "not_found", NoPre)
       ELSE /\ store' = store
            /\ last' = Ran("delete_exchange", None, None, None, "not_found", NoPre)
    /\ UNCHANGED <<nextId, convs, reqs>>

(* ------------------------------ lookups -------------------------------- *)
\* GET /api/exchanges/{exchange_id}
GetExchange(cid, exchange_id) ==
    /\ LET found == Stored(cid) /\ Has(store[cid], exchange_id)
       IN  last' = IF found
                   THEN Ran("get_exchange", cid, exchange_id, None, "ok", NoPre)
                   ELSE Ran("get_exchange", None, None, None, "not_found", NoPre)
    /\ UNCHANGED <<store, nextId, convs, reqs>>

\* GET /api/exchange-paths/{exchange_id}: 404 when the tree is missing or the
\* path is empty
GetPath(cid, exchange_id) ==
    /\ LET found == Stored(cid) /\ get_path_to_exchange(store[cid], exchange_id) # <<>>
       IN  last' = IF found
                   THEN Ran("get_path_to_exchange", cid, exchange_id, None, "ok", NoPre)
                   ELSE Ran("get_path_to_exchange", None, None, None, "not_found", NoPre)
    /\ UNCHANGED <<store, nextId, convs, reqs>>

(* ------------------------------ chat requests -------------------------- *)
\* ConversationNode(content=..., role=...): one message of the transcript
ConversationNode(role, content) == [role |-> role, content |-> content]

\* the loop that builds conversation_history over a path: ids that name no
\* exchange are skipped; an exchange gives its user message, then its assistant
\* message if ex.assistant_content and ex.is_complete
RECURSIVE conversation_history(_, _)
conversation_history(conversation, path) ==
    IF path = <<>> THEN <<>>
    ELSE LET exchange_id == Head(path)
             rest == conversation_history(conversation, Tail(path))
         IN  IF ~Has(conversation, exchange_id) THEN rest
             ELSE LET ex == conversation.exchanges[exchange_id]
                      user_msg == ConversationNode("user", ex.user_content)
                      assistant_msg == ConversationNode("assistant", ex.assistant_content[1])
                  IN  IF TruthyText(ex.assistant_content) /\ ex.is_complete
                      THEN <<user_msg, assistant_msg>> \o rest
                      ELSE <<user_msg>> \o rest

\* the server-sent events of generate_stream, as <<type, payload>>
exchange_created(exchange_id) == <<"exchange_created", exchange_id>>
content_event(chunk) == <<"content", chunk>>
done_event(assistant_content) == <<"done", assistant_content>>
error_event == <<"error", <<>>>>

\* what a streaming response did last, with the events it has yielded in all
Yielded(op, cid, id, ret, events) ==
    [op |-> op, cid |-> cid, id |-> id, parent |-> None, ret |-> ret,
     pre |-> NoPre, events |-> events]

\* faulty variant: a request for a tree that is not stored leaves the store as
\* it is instead of creating the tree (C16)
ChatStart_not_found(mode, cid, request_parent_id, message) ==
    /\ LET conversation == IF Stored(cid) THEN store[cid] ELSE NewTree
           parent_id ==
               IF request_parent_id = None /\ conversation.current_path # <<>>
               THEN conversation.current_path[Len(conversation.current_path)]
               ELSE request_parent_id
           exchange == ExchangeNode(nextId, message, <<>>, TRUE)
           added == add_exchange(conversation, exchange, parent_id)
           updated_conversation ==
               [added EXCEPT !.current_path = get_path_to_exchange(added, exchange.id)]
       IN  /\ store' = IF Stored(cid) THEN Put(store, cid, updated_conversation)
                       ELSE store
           /\ reqs' = Put(reqs, exchange.id,
                  [ mode          |-> mode,
                    cid           |-> cid,
                    history       |-> conversation_history(updated_conversation,
                                          updated_conversation.current_path),
                    \* generate_stream yields exchange_created before it asks
                    \* for the first fragment
                    events        |-> IF mode = "stream"
                                      THEN <<exchange_created(exchange.id)>>
                                      ELSE <<>>,
                    full_response |-> <<>>,
                    chunk_count   |-> 0 ])
           /\ last' = Ran("chat_start", cid, exchange.id, request_parent_id,
                          IF Stored(cid) THEN "ok" ELSE "recovered", NoPre)
    /\ nextId' = nextId + 1
    /\ UNCHANGED convs

\* faulty variant: a request without a parent id is attached under no parent,
\* wherever current_path ends (C17)
ChatStart_no_default(mode, cid, request_parent_id, message) ==
    /\ LET conversation == IF Stored(cid) THEN store[cid] ELSE NewTree
           parent_id == request_parent_id
           exchange == ExchangeNode(nextId, message, <<>>, TRUE)
           added == add_exchange(conversation, exchange, parent_id)
           updated_conversation ==
               [added EXCEPT !.current_path = get_path_to_exchange(added, exchange.id)]
       IN  /\ store' = Put(store, cid, updated_conversation)
           /\ reqs' = Put(reqs, exchange.id,
                  [ mode          |-> mode,
                    cid           |-> cid,
                    history       |-> conversation_history(updated_conversation,
                                          updated_conversation.current_path),
                    \* generate_stream yields exchange_created before it asks
                    \* for the first fragment
                    events        |-> IF mode = "stream"
                                      THEN <<exchange_created(exchange.id)>>
                                      ELSE <<>>,
                    full_response |-> <<>>,
                    chunk_count   |-> 0 ])
           /\ last' = Ran("chat_start", cid, exchange.id, request_parent_id,
                          IF Stored(cid) THEN "ok" ELSE "recovered", NoPre)
    /\ nextId' = nextId + 1
    /\ UNCHANGED convs

\* the part of send_chat_message / stream_chat_message before the first await:
\* resolve or auto-create the tree, pick the parent, attach the pending
\* exchange, move current_path to it
ChatStart(mode, cid, request_parent_id, message) ==
    /\ LET conversation == IF Stored(cid) THEN store[cid] ELSE NewTree
           parent_id ==
               IF request_parent_id = None /\ conversation.current_path # <<>>
               THEN conversation.current_path[Len(conversation.current_path)]
               ELSE request_parent_id
           exchange == ExchangeNode(nextId, message, <<>>, TRUE)
           added == add_exchange(conversation, exchange, parent_id)
           updated_conversation ==
               [added EXCEPT !.current_path = get_path_to_exchange(added, exchange.id)]
       IN  /\ store' = Put(store, cid, updated_conversation)
           /\ reqs' = Put(reqs, exchange.id,
                  [ mode          |-> mode,
                    cid           |-> cid,
                    \* read from the tree as it is stored now
                    history       |-> conversation_history(store'[cid],
                                          store'[cid].current_path),
                    \* generate_stream yields exchange_created before it asks
                    \* for the first fragment
                    events        |-> IF mode = "stream"
                                      THEN <<exchange_created(exchange.id)>>
                                      ELSE <<>>,
                    full_response |-> <<>>,
                    chunk_count   |-> 0 ])
           /\ last' = Ran("chat_start", cid, exchange.id, request_parent_id,
                          IF Stored(cid) THEN "ok" ELSE "recovered", NoPre)
    /\ nextId' = nextId + 1
    /\ UNCHANGED convs

\* faulty variant: the request completes a copy of the exchange taken when it
\* was created, and stores the copy over the exchange in the tree (C34)
Completed_from_copy(cid, exchange_id, text) ==
    IF update_exchange_found(cid, exchange_id)
    THEN [store EXCEPT ![cid].exchanges[exchange_id] =
              [@ EXCEPT !.assistant_content = Some(text),
                        !.assistant_loading = FALSE,
                        !.is_complete = TRUE,
                        !.children_ids = <<>>]]
    ELSE store

\* faulty variant: the text is attached and the exchange stays loading (C30)
Completed_still_loading(cid, exchange_id, text) ==
    IF update_exchange_found(cid, exchange_id)
    THEN [store EXCEPT ![cid].exchanges[exchange_id] =
              [@ EXCEPT !.assistant_content = Some(text),
                        !.is_complete = TRUE]]
    ELSE store

\* exchange.assistant_content = text; assistant_loading = False; is_complete = True
\* on the request's exchange object, which the stored tree holds while the
\* exchange is still in it
Completed(cid, exchange_id, text) ==
    IF update_exchange_found(cid, exchange_id)
    THEN [store EXCEPT ![cid].exchanges[exchange_id] =
              [@ EXCEPT !.assistant_content = Some(text),
                        !.assistant_loading = FALSE,
                        !.is_complete = TRUE]]
    ELSE store

\* final_conversation.current_path = get_path_to_exchange(exchange.id);
\* storage.update_conversation(final_conversation)
Persisted(st, cid, exchange_id) ==
    LET final_conversation ==
            [st[cid] EXCEPT !.current_path = get_path_to_exchange(st[cid], exchange_id)]
    IN  update_conversation(st, cid, final_conversation).store

\* str.strip(), with " " for the whitespace characters
RECURSIVE lstrip(_)
lstrip(text) ==
    IF text # <<>> /\ Head(text) = " " THEN lstrip(Tail(text)) ELSE text

RECURSIVE rstrip(_)
rstrip(text) ==
    IF text # <<>> /\ text[Len(text)] = " "
    THEN rstrip(SubSeq(text, 1, Len(text) - 1))
    ELSE text

strip(text) == rstrip(lstrip(text))

\* OpenAIService.generate_chat_response from the message content of the
\* completion on: raise on empty content, else return response_content.strip()
generate_chat_response(response_content) ==
    IF response_content = <<>>
    THEN [raised |-> TRUE, text |-> <<>>]
    ELSE [raised |-> FALSE, text |-> strip(response_content)]

\* a chat request of the given mode is suspended in its generation call
Generating(r, mode) == r \in DOMAIN reqs /\ reqs[r].mode = mode

\* send_chat_message after generate_chat_response returned text
ChatReply(r, text) ==
    /\ Generating(r, "single")
    /\ LET cid == reqs[r].cid
           found == update_exchange_found(cid, r)
       IN  /\ store' = IF found THEN Persisted(Completed(cid, r, text), cid, r)
                       ELSE store
           /\ last' = Ran("chat_reply", cid, r, None,
                          IF found THEN "ok" ELSE "error", NoPre)
    /\ reqs' = Drop(reqs, r)
    /\ UNCHANGED <<nextId, convs>>

\* faulty variant: the failed request still marks its exchange complete (C12)
ChatFail_completing(r) ==
    /\ Generating(r, "single")
    /\ store' = Completed(reqs[r].cid, r, <<>>)
    /\ reqs' = Drop(reqs, r)
    /\ last' = Ran("chat_fail", reqs[r].cid, r, None, "error", NoPre)
    /\ UNCHANGED <<nextId, convs>>

\* faulty variant: the failed request takes its exchange out of the tree again
\* (C37)
ChatFail_rolling_back(r) ==
    /\ Generating(r, "single")
    /\ store' = IF update_exchange_found(reqs[r].cid, r)
                THEN [store EXCEPT ![reqs[r].cid] = delete_exchange(@, r).tree]
                ELSE store
    /\ reqs' = Drop(reqs, r)
    /\ last' = Ran("chat_fail", reqs[r].cid, r, None, "error", NoPre)
    /\ UNCHANGED <<nextId, convs>>

\* send_chat_message after generate_chat_response raised
ChatFail(r) ==
    /\ Generating(r, "single")
    /\ reqs' = Drop(reqs, r)
    /\ last' = Ran("chat_fail", reqs[r].cid, r, None, "error", NoPre)
    /\ UNCHANGED <<store, nextId, convs>>

\* faulty variant: the fragment is put in front of the accumulated text (C14)
StreamChunk_prepending(r, chunk) ==
    /\ Generating(r, "stream")
    /\ reqs' = [reqs EXCEPT ![r].full_response = chunk \o @,
                            ![r].chunk_count = @ + 1,
                            ![r].events = Append(@, content_event(chunk))]
    /\ last' = Ran("stream_chunk", reqs[r].cid, r, None, "ok", NoPre)
    /\ UNCHANGED <<store, nextId, convs>>

\* generate_stream: one fragment arrives and is forwarded
StreamChunk(r, chunk) ==
    /\ Generating(r, "stream")
    /\ reqs' = [reqs EXCEPT ![r].full_response = @ \o chunk,
                            ![r].chunk_count = @ + 1,
                            ![r].events = Append(@, content_event(chunk))]
    /\ last' = Ran("stream_chunk", reqs[r].cid, r, None, "ok", NoPre)
    /\ UNCHANGED <<store, nextId, convs>>

\* generate_stream: the fragment sequence ended normally
StreamEnd(r) ==
    /\ Generating(r, "stream")
    /\ LET cid == reqs[r].cid
           found == update_exchange_found(cid, r)
       IN  /\ store' = IF found
                       THEN Persisted(Completed(cid, r, reqs[r].full_response), cid, r)
                       ELSE store
           /\ last' = Yielded("stream_end", cid, r, "ok",
                              Append(reqs[r].events, done_event(reqs[r].full_response)))
    /\ reqs' = Drop(reqs, r)
    /\ UNCHANGED <<nextId, convs>>

\* faulty variant: the text accumulated so far is attached before the error
\* event is sent (C13)
StreamFail_attaching(r) ==
    /\ Generating(r, "stream")
    /\ store' = Completed(reqs[r].cid, r, reqs[r].full_response)
    /\ reqs' = Drop(reqs, r)
    /\ last' = Yielded("stream_fail", reqs[r].cid, r, "error",
                       Append(reqs[r].events, error_event))
    /\ UNCHANGED <<nextId, convs>>

\* generate_stream: the fragment sequence raised
StreamFail(r) ==
    /\ Generating(r, "stream")
    /\ reqs' = Drop(reqs, r)
    /\ last' = Yielded("stream_fail", reqs[r].cid, r, "error",
                       Append(reqs[r].events, error_event))
    /\ UNCHANGED <<store, nextId, convs>>

\* faulty variant: closing the generator runs the completion, as a finally
\* clause around it would (C15)
StreamCancel_completing(r) ==
    /\ Generating(r, "stream")
    /\ store' = Completed(reqs[r].cid, r, reqs[r].full_response)
    /\ reqs' = Drop(reqs, r)
    /\ last' = Yielded("stream_cancel", reqs[r].cid, r, "cancelled", reqs[r].events)
    /\ UNCHANGED <<nextId, convs>>

\* the caller of a streaming response went away: the generator is closed where
\* it is suspended (CancelledError / GeneratorExit are not Exceptions, so the
\* except clause does not run) and nothing more is consumed or yielded
StreamCancel(r) ==
    /\ Generating(r, "stream")
    /\ reqs' = Drop(reqs, r)
    /\ last' = Yielded("stream_cancel", reqs[r].cid, r, "cancelled", reqs[r].events)
    /\ UNCHANGED <<store, nextId, convs>>

(* ------------------------------ specifications ------------------------ *)
\* the requests that are served without suspending: to the conversations of
\* C, while exchange ids last, with user messages from texts and user
\* summaries from summaries
Mutations(C, max_ids, texts, summaries) ==
    \/ \E cid \in C, m \in {NoText} \cup {Some(t) : t \in texts} :
           /\ TruthyText(m) => nextId <= max_ids
           /\ CreateConversation(cid, m)
    \/ \E cid \in KnownConvs : DeleteConversation(cid)
    \/ \E cid \in KnownConvs, c \in texts, s \in summaries, p \in ParentArgs :
           /\ nextId <= max_ids
           /\ CreateExchange(cid, c, s, p)
    \/ \E cid \in KnownConvs, x \in KnownIds : DeleteExchange(cid, x)

\* the chat requests, up to their generation call
Chats(max_ids, texts) ==
    \E mode \in {"single", "stream"}, cid \in KnownConvs, p \in ParentArgs,
       m \in texts :
        /\ nextId <= max_ids
        /\ ChatStart(mode, cid, p, m)

\* what clients may send
Requests(C, max_ids, texts, summaries) ==
    Mutations(C, max_ids, texts, summaries) \/ Chats(max_ids, texts)

\* what the generation calls in flight may do: the message content of a
\* completion comes from completions; fragments come from chunks, at most
\* max_chunks of them per response
Generation(chunks, max_chunks, completions) ==
    \/ \E r \in DOMAIN reqs, response_content \in completions :
           LET response == generate_chat_response(response_content)
           IN  IF response.raised THEN ChatFail(r) ELSE ChatReply(r, response.text)
    \/ \E r \in DOMAIN reqs : ChatFail(r)
    \/ \E r \in DOMAIN reqs, c \in chunks :
           /\ reqs[r].chunk_count < max_chunks
           /\ StreamChunk(r, c)
    \/ \E r \in DOMAIN reqs : StreamEnd(r)
    \/ \E r \in DOMAIN reqs : StreamFail(r)
    \/ \E r \in DOMAIN reqs : StreamCancel(r)

\* requests arrive at any time, also while generation calls are suspended
Next == Requests(ConvIds, MaxIds, Messages, {NoText}) \/ Generation(Chunks, MaxChunks, Replies)

Spec == Init /\ [][Next]_vars

\* the scheduling section 5 of the specification expects: one request at a
\* time, the next one arriving only when no generation call is pending
NextSeq ==
    \/ reqs = <<>> /\ Requests(ConvIds, SeqIds, Messages, {NoText})
    \/ Generation(Chunks, MaxChunks, Replies)

SpecSeq == Init /\ [][NextSeq]_vars

\* the streaming flow in detail: requests at any time, responses of several
\* distinguishable fragments
NextStream == Requests(ConvIds, StreamIds, Messages, {NoText}) \/ Generation(Fragments, StreamChunks, Replies)

SpecStream == Init /\ [][NextStream]_vars

\* what clients may look up
Lookups ==
    \/ \E cid \in KnownConvs, x \in KnownIds : GetExchange(cid, x)
    \/ \E cid \in KnownConvs, x \in KnownIds : GetPath(cid, x)

\* two conversations side by side, with the read-only requests
NextIso ==
    \/ Requests(IsoConvs, IsoIds, Messages, {NoText})
    \/ Lookups
    \/ Generation(Chunks, MaxChunks, Replies)

SpecIso == Init /\ [][NextIso]_vars

\* exchanges created from user messages of every length around the cut, with
\* and without a summary; no generation call returns
NextSummary == Requests(ConvIds, SumIds, Texts, Summaries)

SpecSummary == Init /\ [][NextSummary]_vars

\* the generation results in detail: completions that are empty or blank
NextGen ==
    \/ Requests(ConvIds, GenIds, Messages, {NoText})
    \/ Generation(Chunks, MaxChunks, Completions)

SpecGen == Init /\ [][NextGen]_vars

\* one request at a time, as in SpecSeq, over fewer exchanges: what a chat
\* request leaves behind for the request that follows it
NextRetry ==
    \/ reqs = <<>> /\ Requests(ConvIds, RetryIds, Messages, {NoText})
    \/ Generation(Chunks, MaxChunks, Replies)

SpecRetry == Init /\ [][NextRetry]_vars

\* the tree operations alone: conversations and exchanges created and deleted
\* through their endpoints, no chat request
NextTree == Mutations(ConvIds, TreeIds, Messages, {NoText})

SpecTree == Init /\ [][NextTree]_vars

(* ------------------------------ vocabulary of the claims --------------- *)
\* the tree stored under c, or a tree with nothing in it when none is stored
TreeAt(st, c) == IF c \in DOMAIN st THEN st[c] ELSE NewTree

\* e's parent exists in t and lists e among its children
Linked(t, e) ==
    LET p == t.exchanges[e].parent_id
    IN  Has(t, p) /\ InSeq(e, t.exchanges[p].children_ids)

\* the exchanges of t whose parent_id is null
Parentless(t) == { e \in DOMAIN t.exchanges : t.exchanges[e].parent_id = None }

IsPrefix(s, t) == Len(s) <= Len(t) /\ SubSeq(t, 1, Len(s)) = s

\* the last handler was a delete_exchange that removed something; BeforeDelete
\* is the tree it was called on and AfterDelete the tree it left
Deleted == last.op = "delete_exchange" /\ last.ret = "ok"
BeforeDelete == last.pre[1]
AfterDelete == store[last.cid]

\* x and everything reachable from x through children_ids
RECURSIVE Subtree(_, _)
Subtree(t, x) ==
    {x} \cup UNION { Subtree(t, t.exchanges[x].children_ids[i]) :
                       i \in { j \in 1..Len(t.exchanges[x].children_ids) :
                                 Has(t, t.exchanges[x].children_ids[j]) } }

\* the positions of x in the sequence s
Positions(x, s) == { i \in 1..Len(s) : s[i] = x }

\* the longest leading prefix of path whose ids are all in t
LongestPresentPrefix(t, path) ==
    LET ok == { n \in 0..Len(path) : \A i \in 1..n : Has(t, path[i]) }
    IN  SubSeq(path, 1, CHOOSE n \in ok : \A m \in ok : m <= n)

(* ------------------------------ C1 ------------------------------------- *)
\* C1 as stated: in every reachable state every exchange whose parent_id is
\* set has a parent that exists in its tree and lists it in children_ids.
C1_BidirectionalConsistency ==
    \A c \in DOMAIN store : \A e \in DOMAIN store[c].exchanges :
        store[c].exchanges[e].parent_id # None => Linked(store[c], e)

\* C1 as amended: after every step, an exchange whose parent_id is set is
\* linked both ways, unless this step added it under a parent id that names no
\* exchange of its tree, or it was already unlinked before the step.  So an
\* exchange added under an existing parent stays linked for as long as it
\* exists, and only exchanges added under an id that did not resolve dangle.
C1_LinkedUnlessAddedUnresolved ==
    [][ \A c \in DOMAIN store' : \A e \in DOMAIN store'[c].exchanges :
          LET after == store'[c]
              before == TreeAt(store, c)
              p == after.exchanges[e].parent_id
          IN  p # None =>
                \/ Linked(after, e)
                \/ ~Has(before, e) /\ ~Has(before, p)
                \/ Has(before, e) /\ ~Linked(before, e) ]_vars

\* a chat request completed an exchange that it had attached under an existing
\* parent, and the link is there in both directions
C1_Witness ==
    /\ last.op = "chat_reply" /\ last.ret = "ok"
    /\ \E c \in DOMAIN store :
         /\ Has(store[c], last.id)
         /\ store[c].exchanges[last.id].parent_id # None
         /\ Linked(store[c], last.id)

(* ------------------------------ C2 ------------------------------------- *)
\* C2: delete_exchange(x) on an existing non-root x removes x and every
\* exchange reachable from x through children_ids, and afterwards no remaining
\* exchange has a parent_id equal to a removed id.
C2_DeleteRemovesSubtree ==
    (Deleted /\ last.id # BeforeDelete.root_id) =>
        LET gone == Subtree(BeforeDelete, last.id)
        IN  /\ gone \cap DOMAIN AfterDelete.exchanges = {}
            /\ \A e \in DOMAIN AfterDelete.exchanges :
                   AfterDelete.exchanges[e].parent_id \notin gone

\* a non-root exchange with at least one descendant was deleted
C2_Witness ==
    /\ Deleted
    /\ last.id # BeforeDelete.root_id
    /\ Cardinality(Subtree(BeforeDelete, last.id)) >= 2
    /\ DOMAIN AfterDelete.exchanges # {}

(* ------------------------------ C3 ------------------------------------- *)
\* C3 as stated: current_path is always a valid root-to-node path: every id in
\* it exists in exchanges, the first is the root, and each later element's
\* parent_id is the element before it.
C3_CurrentPathValid ==
    \A c \in DOMAIN store :
        LET t == store[c]
            path == t.current_path
        IN  \A i \in 1..Len(path) :
                /\ Has(t, path[i])
                /\ i = 1 => path[i] = t.root_id
                /\ i > 1 => t.exchanges[path[i]].parent_id = path[i - 1]

(* ------------------------------ C4 ------------------------------------- *)
\* C4 as stated: after a delete_exchange, current_path is its old value or a
\* strict prefix of it, and every id that remains in it exists in exchanges.
C4_PathPrefixAndPresent ==
    Deleted =>
        /\ IsPrefix(AfterDelete.current_path, BeforeDelete.current_path)
        /\ \A i \in 1..Len(AfterDelete.current_path) :
               Has(AfterDelete, AfterDelete.current_path[i])

RootIffNonEmpty(t) ==
    /\ t.root_id = None <=> DOMAIN t.exchanges = {}
    /\ t.root_id # None => Has(t, t.root_id)

\* C6 as stated, in the case it names first: after the root exchange is
\* deleted, root_id is null exactly when exchanges is empty and a non-null
\* root_id names an exchange that is present.
C6_RootIffNonEmptyAfterRootDeleted ==
    (Deleted /\ last.id = BeforeDelete.root_id) => RootIffNonEmpty(AfterDelete)

(* ------------------------------ C7 ------------------------------------- *)
\* C7 as stated: a non-empty tree has exactly one exchange with parent_id
\* null, the one root_id names; an empty tree has none.
C7_ExactlyOneParentless ==
    \A c \in DOMAIN store :
        LET t == store[c]
        IN  IF DOMAIN t.exchanges = {} THEN Parentless(t) = {}
            ELSE Parentless(t) = {t.root_id}

\* C7 as amended: the exchange root_id names, when present, has parent_id
\* null, and root_id is never reassigned once set (first root wins); further
\* exchanges with parent_id null can be stored beside it.
C7_RootIsParentlessAndStays ==
    [][ \A c \in DOMAIN store' :
          LET after == store'[c]
          IN  /\ (after.root_id # None /\ Has(after, after.root_id))
                   => after.root_id \in Parentless(after)
              /\ (c \in DOMAIN store /\ store[c].root_id # None)
                   => after.root_id = store[c].root_id ]_vars

\* a null-parent create-exchange stored a second parentless exchange beside
\* the root
C7_Witness ==
    /\ last.op = "create_exchange" /\ last.ret = "ok" /\ last.parent = None
    /\ \E c \in DOMAIN store :
         /\ Has(store[c], last.id)
         /\ store[c].root_id # last.id
         /\ Has(store[c], store[c].root_id)
         /\ {last.id, store[c].root_id} \subseteq Parentless(store[c])

(* ------------------------------ add_exchange on reachable trees -------- *)
\* the exchange the next add would store, and the tree it would leave when
\* added to t under parent id p
Fresh == ExchangeNode(nextId, <<"h">>, <<>>, FALSE)
AddedTo(t, p) == add_exchange(t, Fresh, p)

\* an exchange of t, or null: the parents an exchange can be added under
ParentsIn(t) == DOMAIN t.exchanges \cup {None}

\* the last handler was a create-exchange that stored its exchange
Created == last.op = "create_exchange" /\ last.ret = "ok"

(* ------------------------------ C8 ------------------------------------- *)
\* C8 as stated: for every tree and every exchange e added with parent p
\* (null or an exchange of the tree), path_to(e.id) afterwards ends with e.id,
\* e.id is immediately preceded by p's id when p is non-null, and the first
\* element of the path is the tree's root_id.
C8_PathEndsAtAddedStartsAtRoot ==
    \A c \in DOMAIN store : \A p \in ParentsIn(store[c]) :
        LET after == AddedTo(store[c], p)
            path == get_path_to_exchange(after, Fresh.id)
        IN  /\ path # <<>>
            /\ path[Len(path)] = Fresh.id
            /\ p # None => (Len(path) >= 2 /\ path[Len(path) - 1] = p)
            /\ path[1] = after.root_id

\* C8 as amended: path_to(e.id) ends with e.id, immediately preceded by p when
\* p is non-null (whether or not p names an exchange), and is path_to(p)
\* followed by e.id when p names an exchange; its first element is the tree's
\* root_id when p is null and the tree had no root, or when p names an
\* exchange whose own path starts at the root.
C8_PathEndsAtAdded ==
    \A c \in DOMAIN store : \A p \in ParentArgs :
        LET before == store[c]
            after == AddedTo(before, p)
            path == get_path_to_exchange(after, Fresh.id)
            from_root ==
                \/ p = None /\ before.root_id = None
                \/ /\ p # None /\ Has(before, p)
                   /\ get_path_to_exchange(before, p)[1] = before.root_id
        IN  /\ path # <<>>
            /\ path[Len(path)] = Fresh.id
            /\ p # None => (Len(path) >= 2 /\ path[Len(path) - 1] = p)
            /\ (p # None /\ Has(before, p))
                   => path = Append(get_path_to_exchange(before, p), Fresh.id)
            /\ from_root => path[1] = after.root_id

\* create-exchange added an exchange under a child of the root: its path is
\* root, parent, itself
C8_Witness ==
    /\ Created
    /\ LET t == store[last.cid]
       IN  /\ last.parent # t.root_id
           /\ get_path_to_exchange(t, last.id) = <<t.root_id, last.parent, last.id>>

(* ------------------------------ C9 ------------------------------------- *)
\* C9: add_exchange with a null parent makes the new exchange the root and
\* sets current_path to [its id] only when root_id is null; when a root is
\* already assigned it leaves root_id and current_path unchanged; either way
\* the exchange is stored.
C9_FirstRootWins ==
    \A c \in DOMAIN store :
        LET before == store[c]
            after == AddedTo(before, None)
        IN  /\ Has(after, Fresh.id)
            /\ after.exchanges[Fresh.id].parent_id = None
            /\ IF before.root_id = None
               THEN after.root_id = Fresh.id /\ after.current_path = <<Fresh.id>>
               ELSE after.root_id = before.root_id
                    /\ after.current_path = before.current_path

\* a null-parent create-exchange on a tree whose root was already assigned:
\* the exchange is stored and is not the root
C9_Witness ==
    /\ Created /\ last.parent = None
    /\ store[last.cid].root_id \notin {None, last.id}
    /\ Has(store[last.cid], last.id)
    /\ ~InSeq(last.id, store[last.cid].current_path)

(* ------------------------------ C10 ------------------------------------ *)
\* every children_ids lists exactly the existing exchanges whose parent_id is
\* the listing exchange, in the order they were created (ids are handed out in
\* increasing order), each once
ChildrenInCreationOrder(t) ==
    \A x \in DOMAIN t.exchanges :
        LET kids == t.exchanges[x].children_ids
        IN  /\ \A i \in 1..Len(kids) : \A j \in 1..Len(kids) :
                   i < j => kids[i] < kids[j]
            /\ { kids[i] : i \in 1..Len(kids) } =
                   { e \in DOMAIN t.exchanges : t.exchanges[e].parent_id = x }

\* C10: add_exchange with a non-null parent id sets the new exchange's
\* parent_id to it and always stores the exchange; when the parent exists the
\* new id is appended once at the end of the parent's children_ids and nothing
\* else changes, so every children_ids lists the surviving children in
\* creation order without duplicates; when the parent does not exist no other
\* exchange is modified.
C10_AddUnderParent ==
    \A c \in DOMAIN store :
        /\ ChildrenInCreationOrder(store[c])
        /\ \A p \in KnownIds :
            LET before == store[c]
                after == AddedTo(before, p)
            IN  /\ DOMAIN after.exchanges = DOMAIN before.exchanges \cup {Fresh.id}
                /\ after.exchanges[Fresh.id] = [Fresh EXCEPT !.parent_id = p]
                /\ \A x \in DOMAIN before.exchanges :
                       IF x = p
                       THEN after.exchanges[x] =
                                [before.exchanges[x] EXCEPT
                                     !.children_ids = Append(@, Fresh.id)]
                       ELSE after.exchanges[x] = before.exchanges[x]

\* create-exchange added a second child under a parent: the parent lists its
\* first child, then the new one
C10_Witness ==
    /\ Created /\ last.parent # None
    /\ LET t == store[last.cid]
       IN  /\ Has(t, last.parent)
           /\ Len(t.exchanges[last.parent].children_ids) = 2
           /\ t.exchanges[last.parent].children_ids[2] = last.id

(* ------------------------------ C11 ------------------------------------ *)
\* C11: on every reachable tree and for every id that is not in its exchanges
\* (never used, deleted, or no id at all), delete_exchange returns false,
\* path_to returns the empty sequence, and the tree (exchanges, root_id,
\* current_path) is as before.
C11_AbsentIdIsNoOp ==
    \A c \in DOMAIN store : \A x \in KnownIds \cup {nextId} :
        ~Has(store[c], x) =>
            /\ delete_exchange(store[c], x) = [tree |-> store[c], ret |-> FALSE]
            /\ get_path_to_exchange(store[c], x) = <<>>

\* a delete-exchange request named an exchange that had been deleted from a
\* tree that still holds others, and found nothing
C11_Witness ==
    /\ last.op = "delete_exchange" /\ last.ret = "not_found"
    /\ \E c \in DOMAIN store :
         /\ DOMAIN store[c].exchanges # {}
         /\ \E x \in 1..(nextId - 1) : ~Has(store[c], x)

(* ------------------------------ chat outcomes -------------------------- *)
\* the exchange the last handler worked on is still in its tree
LastStored == Stored(last.cid) /\ Has(store[last.cid], last.id)
LastExchange == store[last.cid].exchanges[last.id]

\* assistant_loading true, no assistant content, is_complete false
Pending(ex) ==
    ex.assistant_loading /\ ex.assistant_content = NoText /\ ~ex.is_complete

\* the events of the given type in a sequence of events
OfType(type, events) == { i \in 1..Len(events) : events[i][1] = type }

\* the payloads of the content events, concatenated in order
RECURSIVE Forwarded(_)
Forwarded(events) ==
    IF events = <<>> THEN <<>>
    ELSE IF Head(events)[1] = "content"
         THEN Head(events)[2] \o Forwarded(Tail(events))
         ELSE Forwarded(Tail(events))

(* ------------------------------ C12 ------------------------------------ *)
\* C12: when the generation call of a single-shot chat request fails, the
\* request ends with an error, and the exchange it created (while it is in
\* its tree) keeps assistant_loading true, has no assistant content and has
\* is_complete false.
C12_FailedChatStaysPending ==
    last.op = "chat_fail" =>
        /\ last.ret = "error"
        /\ last.id \notin DOMAIN reqs
        /\ LastStored => Pending(LastExchange)

\* a single-shot generation failed and its exchange is in the tree, pending
C12_Witness ==
    /\ last.op = "chat_fail"
    /\ LastStored
    /\ LastExchange.assistant_loading

(* ------------------------------ C13 ------------------------------------ *)
\* C13: when the fragment sequence of a streaming chat aborts after zero or
\* more fragments were forwarded, the events the caller got are
\* exchange_created, the content events, then one error event and no done
\* event, and the exchange (while it is in its tree) stays pending: no
\* assistant content, is_complete false.
C13_AbortedStreamStaysPending ==
    last.op = "stream_fail" =>
        /\ last.events[Len(last.events)] = error_event
        /\ Cardinality(OfType("error", last.events)) = 1
        /\ OfType("done", last.events) = {}
        /\ last.id \notin DOMAIN reqs
        /\ LastStored => Pending(LastExchange)

\* a stream aborted after a fragment had been forwarded, its exchange in the
\* tree
C13_Witness ==
    /\ last.op = "stream_fail"
    /\ OfType("content", last.events) # {}
    /\ LastStored
    /\ LastExchange.assistant_loading

(* ------------------------------ C14 ------------------------------------ *)
\* C14: a streaming response yields exchange_created first and then one
\* content event per fragment consumed, each before the next fragment is
\* consumed, in the order of the fragments; when the stream ends normally
\* exactly one done event follows, last, and the exchange's assistant_content
\* (while it is in its tree) is the concatenation of the forwarded fragments
\* in order.
C14_StreamEventsInOrder ==
    /\ \A r \in DOMAIN reqs : reqs[r].mode = "stream" =>
           LET events == reqs[r].events
           IN  /\ events[1] = exchange_created(r)
               /\ OfType("content", events) = 2..Len(events)
               /\ Len(events) = reqs[r].chunk_count + 1
               /\ Forwarded(events) = reqs[r].full_response
    /\ last.op = "stream_end" =>
           LET events == last.events
               n == Len(events)
           IN  /\ events[1] = exchange_created(last.id)
               /\ OfType("content", events) = 2..(n - 1)
               /\ events[n] = done_event(Forwarded(events))
               /\ OfType("error", events) = {}
               /\ LastStored =>
                      /\ LastExchange.assistant_content = Some(Forwarded(events))
                      /\ ~LastExchange.assistant_loading

\* a stream of the fragments a, b ended normally: the caller got
\* exchange_created, a, b, done and the exchange holds "ab"
C14_Witness ==
    /\ last.op = "stream_end"
    /\ last.events = << exchange_created(last.id), content_event(<<"a">>),
                        content_event(<<"b">>), done_event(<<"a", "b">>) >>
    /\ LastStored
    /\ LastExchange.assistant_content = Some(<<"a", "b">>)

(* ------------------------------ C15 ------------------------------------ *)
\* C15: when the caller of a streaming chat goes away before the done event,
\* the request is over (no further fragment is consumed, no done or error
\* event is yielded) and the exchange (while it is in its tree) is left
\* pending: no assistant content, is_complete false.
C15_CancelledStreamStaysPending ==
    last.op = "stream_cancel" =>
        /\ last.id \notin DOMAIN reqs
        /\ OfType("done", last.events) = {}
        /\ OfType("error", last.events) = {}
        /\ LastStored => Pending(LastExchange)

\* a caller went away after two fragments had been forwarded; the exchange is
\* in the tree, pending
C15_Witness ==
    /\ last.op = "stream_cancel"
    /\ Cardinality(OfType("content", last.events)) = 2
    /\ LastStored
    /\ LastExchange.assistant_loading

(* ------------------------------ C16 ------------------------------------ *)
\* a step in which a chat request ran up to its generation call
ChatStarted == last'.op = "chat_start" /\ last' # last

\* C16: a chat request (single-shot or streaming) always ends up with its new
\* exchange in the tree stored under the request's conversation id and goes
\* on to generation; when no tree was stored under that id at entry, a new
\* tree is stored under exactly that id, holding that exchange and nothing
\* else, and no other stored tree changes.
C16_AutoRecovery ==
    [][ ChatStarted =>
          LET cid == last'.cid
              e == last'.id
          IN  /\ cid \in DOMAIN store'
              /\ Has(store'[cid], e)
              /\ e \in DOMAIN reqs'
              /\ last'.ret \in {"ok", "recovered"}
              /\ cid \notin DOMAIN store =>
                     /\ last'.ret = "recovered"
                     /\ DOMAIN store' = DOMAIN store \cup {cid}
                     /\ DOMAIN store'[cid].exchanges = {e}
                     /\ \A c \in DOMAIN store : store'[c] = store[c] ]_vars

\* a chat request named a conversation that was not stored; the tree is there
\* again and holds the new exchange
C16_Witness ==
    /\ last.op = "chat_start" /\ last.ret = "recovered"
    /\ LastStored
    /\ last.id \in DOMAIN reqs

(* ------------------------------ C17 ------------------------------------ *)
\* C17: the exchange a chat request creates has as parent_id the request's
\* parent id when one is given; otherwise the last id of the tree's
\* current_path as it is when the request starts; otherwise, current_path
\* being empty, null.
C17_ChatParent ==
    [][ ChatStarted =>
          LET before == TreeAt(store, last'.cid)
              parent_id == store'[last'.cid].exchanges[last'.id].parent_id
          IN  IF last'.parent # None
              THEN parent_id = last'.parent
              ELSE IF before.current_path # <<>>
                   THEN parent_id = before.current_path[Len(before.current_path)]
                   ELSE parent_id = None ]_vars

\* a chat request without a parent id was attached under the exchange that
\* current_path ended at
C17_Witness ==
    /\ last.op = "chat_start" /\ last.parent = None
    /\ LastStored
    /\ LastExchange.parent_id # None
    /\ Has(store[last.cid], LastExchange.parent_id)

(* ------------------------------ transcripts ---------------------------- *)
\* the transcript section 4.4 describes for a path: for each exchange on it,
\* in order, its user message, then its assistant message if and only if the
\* exchange is complete
RECURSIVE Transcript(_, _)
Transcript(t, path) ==
    IF path = <<>> THEN <<>>
    ELSE LET rest == Transcript(t, Tail(path))
         IN  IF ~Has(t, Head(path)) THEN rest
             ELSE LET ex == t.exchanges[Head(path)]
                      user == [role |-> "user", content |-> ex.user_content]
                      assistant == [role |-> "assistant",
                                    content |-> ex.assistant_content[1]]
                  IN  IF ex.is_complete THEN <<user, assistant>> \o rest
                      ELSE <<user>> \o rest

\* is_complete is what the data model derives it to be
Derived(ex) ==
    ex.is_complete = (TruthyText(ex.assistant_content) /\ ~ex.assistant_loading)

(* ------------------------------ C18 ------------------------------------ *)
\* C18 as stated: the transcript a chat request sends to the generator holds,
\* for each exchange on the path in root-to-leaf order, its user message
\* followed by its assistant message if and only if the exchange is complete.
C18_TranscriptPerExchange ==
    (last.op = "chat_start" /\ last.id \in DOMAIN reqs) =>
        reqs[last.id].history =
            Transcript(store[last.cid], store[last.cid].current_path)

(* ------------------------------ C19 ------------------------------------ *)
\* C19 as stated: for a chain of N completed exchanges ending at a leaf, the
\* transcript built over path_to(leaf) has exactly 2N messages, user then
\* assistant alternating, in root-to-leaf order.
C19_TwoMessagesPerCompleted ==
    \A c \in DOMAIN store : \A leaf \in DOMAIN store[c].exchanges :
        LET t == store[c]
            path == get_path_to_exchange(t, leaf)
            history == conversation_history(t, path)
        IN  (\A i \in 1..Len(path) : Has(t, path[i]) /\ t.exchanges[path[i]].is_complete)
            => /\ Len(history) = 2 * Len(path)
               /\ \A i \in 1..Len(path) :
                      /\ history[2 * i - 1] =
                             [role |-> "user", content |-> t.exchanges[path[i]].user_content]
                      /\ history[2 * i] =
                             [role |-> "assistant",
                              content |-> t.exchanges[path[i]].assistant_content[1]]

(* ------------------------------ C20 ------------------------------------ *)
\* C20 as stated: in every reachable state every exchange has is_complete =
\* (assistant_content is non-empty and assistant_loading is false).
C20_IsCompleteDerived ==
    \A c \in DOMAIN store : \A e \in DOMAIN store[c].exchanges :
        Derived(store[c].exchanges[e])

(* ------------------------------ C21 ------------------------------------ *)
\* C21 as stated: after a chat request completes successfully with non-empty
\* text, the exchange's assistant_summary is set and is the summary derived
\* from its assistant_content (the first 50 characters and the ellipsis, or
\* the text itself when it has at most 50 characters).
C21_AssistantSummaryDerived ==
    (/\ last.op \in {"chat_reply", "stream_end"} /\ last.ret = "ok"
     /\ LastStored
     /\ TruthyText(LastExchange.assistant_content))
    => LastExchange.assistant_summary =
           Some(Summarize(LastExchange.assistant_content[1]))

(* ------------------------------ the store ------------------------------ *)
\* trees a caller may hand to create or update: a new one, or one that is
\* stored
SomeTrees == {NewTree} \cup { store[c] : c \in DOMAIN store }

\* st and after hold the same under every id but id
SameElsewhere(st, after, id) ==
    \A j \in IsoConvs \ {id} : get_conversation(after, j) = get_conversation(st, j)

(* ------------------------------ C22 ------------------------------------ *)
\* C22: on every reachable store, update(tree) under an id that is not
\* present raises and leaves the store as it is, without inserting;
\* create(tree) stores the tree under its id whether or not the id is
\* present; update under a present id replaces the stored tree and nothing
\* else.
C22_UpdateNeedsPresent ==
    \A id \in IsoConvs : \A t \in SomeTrees :
        LET created == create_conversation(store, id, t)
            updated == update_conversation(store, id, t)
        IN  /\ get_conversation(created, id) = <<t>>
            /\ SameElsewhere(store, created, id)
            /\ IF id \in DOMAIN store
               THEN /\ ~updated.raised
                    /\ get_conversation(updated.store, id) = <<t>>
                    /\ SameElsewhere(store, updated.store, id)
               ELSE /\ updated.raised
                    /\ updated.store = store

\* a chat request has just replaced its tree through update while another
\* conversation id that was handed out is not in the store
C22_Witness ==
    /\ last.op \in {"chat_reply", "stream_end"} /\ last.ret = "ok"
    /\ LastStored
    /\ convs \ DOMAIN store # {}

(* ------------------------------ C23 ------------------------------------ *)
\* C23: the store is a map keyed by tree id. On every reachable store: get(id)
\* after create or a successful update under id is the tree written, and is
\* what it was under every other id; get(id) is not-found for an id never
\* created and after delete(id); delete(id) returns true exactly when id was
\* present and removes only that entry.
C23_StoreIsMap ==
    /\ \A id \in IsoConvs : \A t \in SomeTrees :
           LET created == create_conversation(store, id, t)
               updated == update_conversation(store, id, t)
               deleted == delete_conversation(store, id)
           IN  /\ get_conversation(created, id) = <<t>>
               /\ SameElsewhere(store, created, id)
               /\ ~updated.raised => get_conversation(updated.store, id) = <<t>>
               /\ SameElsewhere(store, updated.store, id)
               /\ deleted.ret = (get_conversation(store, id) # <<>>)
               /\ get_conversation(deleted.store, id) = <<>>
               /\ SameElsewhere(store, deleted.store, id)
               /\ get_conversation(delete_conversation(created, id).store, id) = <<>>
    /\ \A id \in IsoConvs \ convs : get_conversation(store, id) = <<>>
    /\ (last.op = "delete_conversation" /\ last.ret = "ok")
           => get_conversation(store, last.cid) = <<>>

\* a conversation was deleted while the other one, holding an exchange, stays
C23_Witness ==
    /\ last.op = "delete_conversation" /\ last.ret = "ok"
    /\ \E c \in DOMAIN store : DOMAIN store[c].exchanges # {}

(* ------------------------------ C24 ------------------------------------ *)
\* the chat requests on conversation c that are suspended in generation,
\* other than request r
OthersGenerating(c, r) == { q \in DOMAIN reqs \ {r} : reqs[q].cid = c }

\* C24: while a chat request on a conversation is between determining its
\* parent and persisting its result, no other chat request on that
\* conversation adds an exchange, changes current_path or completes an
\* exchange: a chat handler that has just attached, completed or failed its
\* exchange did so with no other chat request in flight on the conversation.
C24_NoInterleaving ==
    last.op \in {"chat_start", "chat_reply", "chat_fail", "stream_end", "stream_fail"}
        => OthersGenerating(last.cid, last.id) = {}

(* ------------------------------ C25 ------------------------------------ *)
\* a handler addressed to conversation y can run now
Serves(y) ==
    /\ ENABLED DeleteConversation(y)
    /\ \A x \in KnownIds : ENABLED DeleteExchange(y, x)
    /\ \A m \in Messages :
          /\ ENABLED CreateExchange(y, m, NoText, None)
          /\ \A mode \in {"single", "stream"} : ENABLED ChatStart(mode, y, None, m)

\* the handler that has just run was not addressed to conversation y, or
\* reported not-found
Elsewhere(y) == last'.ret = "not_found" \/ last'.cid # y

\* C25: trees are isolated. A handler addressed to one conversation id leaves
\* the tree stored under every other id, and the chat requests suspended on
\* every other id, as they are; and while a chat request on one conversation
\* is suspended in generation, the handlers addressed to any other
\* conversation can run.
C25_Isolated ==
    /\ [][ /\ \A y \in DOMAIN store :
                  Elsewhere(y) => (y \in DOMAIN store' /\ store'[y] = store[y])
            /\ \A r \in DOMAIN reqs :
                  Elsewhere(reqs[r].cid) => (r \in DOMAIN reqs' /\ reqs'[r] = reqs[r])
          ]_vars
    /\ [](\A r \in DOMAIN reqs : \A y \in convs \ {reqs[r].cid} : Serves(y))

\* a conversation was deleted while a chat request on the other conversation
\* is suspended in generation, its tree holding the pending exchange
C25_Witness ==
    /\ last.op = "delete_conversation" /\ last.ret = "ok"
    /\ \E r \in DOMAIN reqs :
          /\ reqs[r].cid # last.cid
          /\ Stored(reqs[r].cid)
          /\ Has(store[reqs[r].cid], r)

(* ------------------------------ C26 ------------------------------------ *)
\* the handler ends otherwise than by reporting not-found with the store as
\* it was
Otherwise == ~(last'.ret = "not_found" /\ store' = store)

\* C26: auto-recovery is confined to the chat entry points. create-exchange,
\* get-exchange, delete-exchange and path lookup addressed to a conversation id
\* that is not in the store can only report not-found and leave the store
\* unchanged; none of the four ever changes which conversation ids are
\* stored, and each succeeds only on a conversation that was stored when it
\* was called.
C26_NotFoundElsewhere ==
    /\ [](\A cid \in convs \ DOMAIN store :
             /\ \A m \in Messages, p \in ParentArgs :
                   ~ENABLED (CreateExchange(cid, m, NoText, p) /\ Otherwise)
             /\ \A x \in KnownIds :
                   /\ ~ENABLED (DeleteExchange(cid, x) /\ Otherwise)
                   /\ ~ENABLED (GetExchange(cid, x) /\ Otherwise)
                   /\ ~ENABLED (GetPath(cid, x) /\ Otherwise))
    /\ [][ last'.op \in {"create_exchange", "get_exchange", "delete_exchange",
                         "get_path_to_exchange"}
              => /\ DOMAIN store' = DOMAIN store
                 /\ last'.ret \in {"ok", "not_found"}
                 /\ last'.ret = "ok" => last'.cid \in DOMAIN store
                 /\ last'.ret = "not_found" => store' = store
          ]_vars

\* create-exchange was refused for a conversation id that was handed out and
\* is not stored, while the other conversation is stored
C26_Witness ==
    /\ last.op = "create_exchange" /\ last.ret = "not_found"
    /\ convs \ DOMAIN store # {}
    /\ DOMAIN store # {}

(* ------------------------------ C27 ------------------------------------ *)
\* the first n characters of a text
FirstChars(c, n) == [i \in 1..n |-> c[i]]

\* the user_summary the specification gives an exchange created from the
\* message c and the summary s of the request
ExpectedSummary(c, s) ==
    IF s # NoText /\ s[1] # <<>> THEN s[1]
    ELSE IF Len(c) <= 50 THEN c
    ELSE FirstChars(c, 50) \o <<".", ".", ".">>

\* the user_summary of the exchange the handler running now stores under cid
NewSummary(cid) == store'[cid].exchanges[nextId].user_summary

\* C27: summary derivation on creation. Whatever the state, no handler that
\* creates an exchange (create-exchange with or without a summary, a chat
\* request, create-conversation with a seed message) can store it with a
\* user_summary other than: the supplied summary when one is given and not
\* empty; else user_content itself when it has at most 50 characters; else
\* its first 50 characters followed by "...". Every stored exchange has one
\* of these summaries.
C27_SummaryDerivation ==
    /\ \A cid \in DOMAIN store : \A c \in Texts :
          /\ \A s \in Summaries :
                ~ENABLED (/\ CreateExchange(cid, c, s, None)
                          /\ NewSummary(cid) # ExpectedSummary(c, s))
          /\ \A mode \in {"single", "stream"} :
                ~ENABLED (/\ ChatStart(mode, cid, None, c)
                          /\ NewSummary(cid) # ExpectedSummary(c, NoText))
    /\ \A cid \in ConvIds \ convs : \A c \in Texts \ {<<>>} :
          ~ENABLED (/\ CreateConversation(cid, Some(c))
                    /\ NewSummary(cid) # ExpectedSummary(c, NoText))
    /\ \A cid \in DOMAIN store : \A e \in DOMAIN store[cid].exchanges :
          LET ex == store[cid].exchanges[e]
          IN  \E s \in Summaries : ex.user_summary = ExpectedSummary(ex.user_content, s)

\* create-exchange has stored a message of more than 50 characters without a
\* given summary: its summary is 50 characters and the ellipsis
C27_Witness ==
    /\ last.op = "create_exchange" /\ last.ret = "ok"
    /\ LastStored
    /\ Len(LastExchange.user_content) = SummaryLen + 1
    /\ LastExchange.user_summary = Text(SummaryLen) \o Ellipsis

(* ------------------------------ C28 ------------------------------------ *)
\* C28: no exchange with empty user_content is ever stored in a tree, whether
\* it comes from the seed message of create-conversation, from create-exchange
\* or from a chat request.
C28_NoEmptyUserContent ==
    \A cid \in DOMAIN store : \A e \in DOMAIN store[cid].exchanges :
        store[cid].exchanges[e].user_content # <<>>

(* ------------------------------ C29 ------------------------------------ *)
\* the stored tree of the last handler has its current_path at path_to(the
\* handler's exchange), ending with that exchange
PathAtLast ==
    /\ Stored(last.cid)
    /\ LET t == store[last.cid]
       IN  /\ t.current_path = get_path_to_exchange(t, last.id)
           /\ t.current_path # <<>>
           /\ t.current_path[Len(t.current_path)] = last.id

\* C29: right after a chat request has attached its exchange, and whenever a
\* chat request returns success (the single-shot reply, the done event of a
\* stream), the stored tree's current_path equals path_to(the request's
\* exchange) and ends with that exchange's id, whatever was added to the tree
\* while the request was generating.
C29_CurrentPathOnSuccess ==
    (\/ last.op = "chat_start"
     \/ last.op \in {"chat_reply", "stream_end"} /\ last.ret = "ok")
        => PathAtLast

(* ------------------------------ C30 ------------------------------------ *)
\* assistant_content set, assistant_loading false
Answered(ex) == ex.assistant_content # NoText /\ ~ex.assistant_loading

\* C30: the lifecycle of an exchange is monotone in every interleaving. The
\* exchange a chat request creates starts pending (loading, no assistant
\* content); over any step that keeps an exchange in its tree, a pending
\* exchange stays pending or becomes answered (content set, loading false),
\* and an answered exchange stays answered with the same assistant_content.
C30_LifecycleMonotone ==
    [][ /\ \A cid \in DOMAIN store \cap DOMAIN store' :
              \A e \in DOMAIN store[cid].exchanges \cap DOMAIN store'[cid].exchanges :
                  LET before == store[cid].exchanges[e]
                      after == store'[cid].exchanges[e]
                  IN  /\ Pending(before) => Pending(after) \/ Answered(after)
                      /\ Answered(before) =>
                            /\ Answered(after)
                            /\ after.assistant_content = before.assistant_content
        /\ (last'.op = "chat_start" /\ nextId' # nextId)
              => Pending(store'[last'.cid].exchanges[last'.id])
      ]_vars

\* a chat request has been answered in a tree where another exchange is
\* answered already
C30_Witness ==
    /\ last.op \in {"chat_reply", "stream_end"} /\ last.ret = "ok"
    /\ LastStored
    /\ Answered(LastExchange)
    /\ \E e \in DOMAIN store[last.cid].exchanges \ {last.id} :
          Answered(store[last.cid].exchanges[e])

(* ------------------------------ C31 ------------------------------------ *)
\* the ids of a sequence
Ids(path) == { path[i] : i \in 1..Len(path) }

\* C31: the parent_id graph is acyclic in every reachable state: the parent of
\* an exchange is null, an id minted before the exchange's own, or no id at
\* all; so path_to terminates for every exchange of every stored tree, visiting
\* no id twice, in at most |exchanges| + 1 steps, the last one for a parent id
\* that is not in exchanges.
C31_Acyclic ==
    \A c \in DOMAIN store :
        LET t == store[c]
        IN  /\ \A e \in DOMAIN t.exchanges : t.exchanges[e].parent_id < e
            /\ \A e \in DOMAIN t.exchanges :
                  LET path == get_path_to_exchange(t, e)
                  IN  /\ Len(path) <= Cardinality(DOMAIN t.exchanges) + 1
                      /\ Cardinality(Ids(path)) = Len(path)
                      /\ Cardinality(Ids(path) \ DOMAIN t.exchanges) <= 1

\* the walk from an exchange takes |exchanges| + 1 steps: it passes every
\* exchange of a tree of two and ends on a parent id that is not in exchanges
C31_Witness ==
    \E c \in DOMAIN store :
        LET t == store[c]
        IN  /\ Cardinality(DOMAIN t.exchanges) = 2
            /\ \E e \in DOMAIN t.exchanges :
                  /\ Len(get_path_to_exchange(t, e)) = 3
                  /\ ~Has(t, get_path_to_exchange(t, e)[1])

(* ------------------------------ C32 ------------------------------------ *)
\* C32: an empty generation result is a failure in both modes: no chat request
\* ends in success with empty assistant_content, and no stored exchange is
\* marked complete with assistant_content empty.
C32_EmptyResultFails ==
    /\ (/\ last.op \in {"chat_reply", "stream_end"} /\ last.ret = "ok"
        /\ LastStored)
           => TruthyText(LastExchange.assistant_content)
    /\ \A c \in DOMAIN store : \A e \in DOMAIN store[c].exchanges :
          store[c].exchanges[e].is_complete
              => TruthyText(store[c].exchanges[e].assistant_content)

(* ------------------------------ C33 ------------------------------------ *)
\* C33: whenever a chat request reports success (the single-shot response, the
\* done event of a stream), its exchange is in the tree stored under the
\* request's conversation id, completed, also when a delete-exchange or a
\* delete-conversation ran during the generation call.
C33_SuccessMeansStored ==
    (last.op \in {"chat_reply", "stream_end"} /\ last.ret = "ok")
        => /\ LastStored
           /\ ~LastExchange.assistant_loading
           /\ LastExchange.assistant_content # NoText

(* ------------------------------ C34 ------------------------------------ *)
\* the exchanges of t whose parent_id is x
ChildrenOf(t, x) == { e \in DOMAIN t.exchanges : t.exchanges[e].parent_id = x }

\* C34: completing an exchange loses no structure added while its reply was
\* in flight. Over the step in which a chat request completes its exchange,
\* the exchange keeps its children_ids and its parent_id, every exchange that
\* named it as parent still does, and each of them is listed in its
\* children_ids.
C34_CompletionKeepsChildren ==
    [][ (/\ last'.op \in {"chat_reply", "stream_end"} /\ last'.ret = "ok"
         /\ last'.id \in DOMAIN reqs \ DOMAIN reqs'
         /\ Stored(last'.cid) /\ Has(store[last'.cid], last'.id))
          => LET before == store[last'.cid]
                 after == store'[last'.cid]
                 x == last'.id
             IN  /\ Has(after, x)
                 /\ after.exchanges[x].children_ids = before.exchanges[x].children_ids
                 /\ after.exchanges[x].parent_id = before.exchanges[x].parent_id
                 /\ ChildrenOf(after, x) = ChildrenOf(before, x)
                 /\ \A e \in ChildrenOf(after, x) :
                       InSeq(e, after.exchanges[x].children_ids)
      ]_vars

\* a chat request has completed an exchange under which a child was added
\* while it was pending
C34_Witness ==
    /\ last.op \in {"chat_reply", "stream_end"} /\ last.ret = "ok"
    /\ LastStored
    /\ LastExchange.children_ids # <<>>
    /\ \A i \in 1..Len(LastExchange.children_ids) :
          /\ Has(store[last.cid], LastExchange.children_ids[i])
          /\ store[last.cid].exchanges[LastExchange.children_ids[i]].parent_id = last.id

(* ------------------------------ C35 ------------------------------------ *)
\* C35: downward consistency of children_ids. In every reachable state every
\* id listed in an exchange's children_ids is an exchange of the tree whose
\* parent_id is the listing exchange, and is listed there once; no id is
\* listed by two exchanges.
C35_ChildrenConsistent ==
    \A c \in DOMAIN store :
        LET t == store[c]
        IN  /\ \A x \in DOMAIN t.exchanges :
                  LET kids == t.exchanges[x].children_ids
                  IN  \A i \in 1..Len(kids) :
                          /\ Has(t, kids[i])
                          /\ t.exchanges[kids[i]].parent_id = x
                          /\ Positions(kids[i], kids) = {i}
            /\ \A x \in DOMAIN t.exchanges : \A y \in DOMAIN t.exchanges \ {x} :
                  Ids(t.exchanges[x].children_ids)
                      \cap Ids(t.exchanges[y].children_ids) = {}

\* delete-exchange has removed one of two children: the parent still lists
\* the other one, and only it
C35_Witness ==
    /\ Deleted
    /\ Has(BeforeDelete, BeforeDelete.exchanges[last.id].parent_id)
    /\ Len(BeforeDelete.exchanges[BeforeDelete.exchanges[last.id].parent_id].children_ids) = 2
    /\ Len(AfterDelete.exchanges[BeforeDelete.exchanges[last.id].parent_id].children_ids) = 1

(* ------------------------------ C36 ------------------------------------ *)
\* the sequence s without x, the rest in order
Without(s, x) == SelectSeq(s, LAMBDA k : k # x)

\* C36: the frame of delete_exchange(x), for every reachable tree and every
\* exchange x of it: the exchanges outside x's subtree all remain, each as it
\* was, except that x's parent lists its other children in their old order
\* without x; root_id is as before; and when no exchange of x's subtree is on
\* current_path, current_path is as before.
C36_DeleteFrame ==
    \A c \in DOMAIN store : \A x \in DOMAIN store[c].exchanges :
        LET before == store[c]
            after == delete_exchange(before, x).tree
            gone == Subtree(before, x)
            p == before.exchanges[x].parent_id
        IN  /\ DOMAIN before.exchanges \ gone \subseteq DOMAIN after.exchanges
            /\ \A e \in DOMAIN before.exchanges \ gone :
                  after.exchanges[e] =
                      IF e = p
                      THEN [before.exchanges[e] EXCEPT
                                !.children_ids = Without(@, x)]
                      ELSE before.exchanges[e]
            /\ after.root_id = before.root_id
            /\ Ids(before.current_path) \cap gone = {}
                  => after.current_path = before.current_path

\* delete-exchange removed the second of three children, off current_path:
\* the parent lists the first and the third, and current_path is as it was
C36_Witness ==
    /\ Deleted
    /\ LET p == BeforeDelete.exchanges[last.id].parent_id
       IN  /\ Has(BeforeDelete, p)
           /\ Len(BeforeDelete.exchanges[p].children_ids) = 3
           /\ BeforeDelete.exchanges[p].children_ids[2] = last.id
           /\ AfterDelete.exchanges[p].children_ids =
                  << BeforeDelete.exchanges[p].children_ids[1],
                     BeforeDelete.exchanges[p].children_ids[3] >>
    /\ BeforeDelete.current_path # <<>>
    /\ AfterDelete.current_path = BeforeDelete.current_path

(* ------------------------------ C37 ------------------------------------ *)
\* the chat request that starts now without a parent id is attached under
\* exchange x, and its transcript ends with x's user message followed by its
\* own, both with the role user
AttachedBeneath(cid, x, m) ==
    LET new == store'[cid].exchanges[nextId]
        h == reqs'[nextId].history
    IN  /\ new.parent_id = x
        /\ InSeq(nextId, store'[cid].exchanges[x].children_ids)
        /\ Len(h) >= 2
        /\ h[Len(h) - 1] = ConversationNode("user", store[cid].exchanges[x].user_content)
        /\ h[Len(h)] = ConversationNode("user", m)

====
